---- MODULE Spec2Model ----
(***************************************************************************)
(* Tech tree visualizer (prototypes/tech_tree_visualizer.py): the two      *)
(* table loaders, the parts assigner, the graph construction and main.     *)
(*                                                                         *)
(* A Python str is a sequence of one-character strings (<<"A", " ">> is    *)
(* "A "), so that strip, split, int and html.escape are computed.          *)
(* Markup written by the program is kept as one element per literal        *)
(* ("<B>", " (", ...).  A dict is a sequence of entries in insertion       *)
(* order.  A table is what csv.reader yields: a header row and data rows,  *)
(* each a sequence of cells.                                               *)
(***************************************************************************)
EXTENDS Naturals, Sequences, FiniteSets, Bags, TLC

VARIABLES
    fn,                \* the function called
    data_source,       \* a loader's argument, with what the environment answers for it
    frame,             \* a loader's activation: position, locals, resources, exception
    pc,                \* position in assign_parts_to_nodes, create_tech_tree_graph, main
    tech_nodes,        \* dict of tech nodes, in insertion order
    parts,             \* list of parts
    unassigned_parts,  \* list of parts no node took
    taken,             \* parts the for loop of assign_parts_to_nodes has taken
    dot,               \* the Digraph under construction
    files,             \* the two output files of main
    err                \* the exception that ended the call, "none" otherwise

callVars == <<pc, tech_nodes, parts, unassigned_parts, taken, dot, files, err>>

vars == <<fn, data_source, frame, pc, tech_nodes, parts, unassigned_parts, taken, dot, files, err>>

----------------------------------------------------------------------------
(* Bounds of the model.                                                    *)

MaxRows == 2

MaxParts == 2

----------------------------------------------------------------------------
(* Python values and string operations.                                    *)

None == <<"None">>

Truthy(v) == v # None /\ v # <<>>

IsSpace(c) == c \in {" ", "\t"}

RECURSIVE lstrip(_)
lstrip(s) == IF s # <<>> /\ IsSpace(Head(s)) THEN lstrip(Tail(s)) ELSE s

RECURSIVE rstrip(_)
rstrip(s) ==
    IF s # <<>> /\ IsSpace(s[Len(s)]) THEN rstrip(SubSeq(s, 1, Len(s) - 1)) ELSE s

strip(s) == rstrip(lstrip(s))

RECURSIVE split(_, _)
split(s, sep) ==
    IF \E i \in 1..Len(s) : s[i] = sep
    THEN LET i == CHOOSE k \in 1..Len(s) :
                      s[k] = sep /\ \A j \in 1..(k - 1) : s[j] # sep
         IN  <<SubSeq(s, 1, i - 1)>> \o split(SubSeq(s, i + 1, Len(s)), sep)
    ELSE <<s>>

Digits == {"0", "1", "2", "3", "4", "5", "6", "7", "8", "9"}

DigitVal(c) == CHOOSE n \in 0..9 : <<"0", "1", "2", "3", "4", "5", "6", "7", "8", "9">>[n + 1] = c

\* int(s) accepts surrounding whitespace, an optional sign and decimal digits.
IsIntLiteral(s) ==
    LET t == strip(s)
        d == IF t # <<>> /\ Head(t) \in {"+", "-"} THEN Tail(t) ELSE t
    IN  d # <<>> /\ \A i \in 1..Len(d) : d[i] \in Digits

RECURSIVE DecVal(_)
DecVal(d) == IF d = <<>> THEN 0 ELSE 10 * DecVal(SubSeq(d, 1, Len(d) - 1)) + DigitVal(d[Len(d)])

\* The magnitude and the sign are kept apart: Naturals has no negative numbers.
int(s) ==
    LET t == strip(s)
        neg == t # <<>> /\ Head(t) = "-"
        d == IF t # <<>> /\ Head(t) \in {"+", "-"} THEN Tail(t) ELSE t
    IN  [neg |-> neg /\ DecVal(d) # 0, abs |-> DecVal(d)]

----------------------------------------------------------------------------
(* csv.DictReader: a row becomes a mapping from the header's names to the  *)
(* row's cells, a cell the row does not have reads None, and rows without  *)
(* cells are skipped.                                                      *)

ColIndex(header, c) == CHOOSE i \in 1..Len(header) :
                           header[i] = c /\ \A j \in (i + 1)..Len(header) : header[j] # c

DictRow(header, row) ==
    [c \in {header[i] : i \in 1..Len(header)} |->
        IF ColIndex(header, c) <= Len(row) THEN row[ColIndex(header, c)] ELSE None]

RECURSIVE SkipBlank(_)
SkipBlank(rows) ==
    IF rows # <<>> /\ Head(rows) = <<>> THEN SkipBlank(Tail(rows)) ELSE rows

----------------------------------------------------------------------------
(* dict operations on a sequence of entries keyed by .name                 *)

Keys(d) == {d[i].name : i \in 1..Len(d)}

KeyIndex(d, k) == CHOOSE i \in 1..Len(d) : d[i].name = k

DictSet(d, e) ==
    IF e.name \in Keys(d) THEN [d EXCEPT ![KeyIndex(d, e.name)] = e] ELSE Append(d, e)

----------------------------------------------------------------------------
(* The row bodies of the two loaders.                                      *)

NoEntry == [name |-> None]

Raise(e) == [err |-> e, entry |-> NoEntry]

Prerequisites(cell) ==
    LET pieces == split(cell, ",")
        kept == SelectSeq(pieces, LAMBDA p : strip(p) # <<>>)
    IN  [i \in 1..Len(kept) |-> strip(kept[i])]

TechRow(row) ==
    IF "Node" \notin DOMAIN row THEN Raise("KeyError")
    ELSE IF "Tier" \notin DOMAIN row THEN Raise("KeyError")
    ELSE IF row["Tier"] = None THEN Raise("TypeError")
    ELSE IF ~IsIntLiteral(row["Tier"]) THEN Raise("ValueError")
    ELSE IF "Description" \notin DOMAIN row THEN Raise("KeyError")
    ELSE IF "Prerequisites" \notin DOMAIN row THEN Raise("KeyError")
    ELSE IF row["Prerequisites"] = None THEN Raise("AttributeError")
    ELSE [err |-> "none",
          entry |-> [name |-> row["Node"],
                     tier |-> int(row["Tier"]),
                     description |-> row["Description"],
                     prerequisites |-> Prerequisites(row["Prerequisites"]),
                     parts |-> <<>>]]

\* The Tech Node cell is kept as read, spaces included.
PartRowUnstripped(row) ==
    IF "Category" \notin DOMAIN row THEN Raise("KeyError")
    ELSE IF "Name" \notin DOMAIN row THEN Raise("KeyError")
    ELSE IF "Tech Node" \notin DOMAIN row THEN Raise("KeyError")
    ELSE IF "Size" \notin DOMAIN row THEN Raise("KeyError")
    ELSE [err |-> "none",
          entry |-> [category |-> row["Category"],
                     name |-> row["Name"],
                     tech_node |-> IF Truthy(row["Tech Node"]) THEN row["Tech Node"] ELSE None,
                     size |-> row["Size"]]]

\* Size is read with row.get('Size'): a header without it yields None.
PartRowLenient(row) ==
    IF "Category" \notin DOMAIN row THEN Raise("KeyError")
    ELSE IF "Name" \notin DOMAIN row THEN Raise("KeyError")
    ELSE IF "Tech Node" \notin DOMAIN row THEN Raise("KeyError")
    ELSE [err |-> "none",
          entry |-> [category |-> row["Category"],
                     name |-> row["Name"],
                     tech_node |-> IF Truthy(row["Tech Node"])
                                   THEN strip(row["Tech Node"]) ELSE None,
                     size |-> IF "Size" \in DOMAIN row THEN row["Size"] ELSE None]]

PartRow(row) ==
    IF "Category" \notin DOMAIN row THEN Raise("KeyError")
    ELSE IF "Name" \notin DOMAIN row THEN Raise("KeyError")
    ELSE IF "Tech Node" \notin DOMAIN row THEN Raise("KeyError")
    ELSE IF "Size" \notin DOMAIN row THEN Raise("KeyError")
    ELSE [err |-> "none",
          entry |-> [category |-> row["Category"],
                     name |-> row["Name"],
                     tech_node |-> IF Truthy(row["Tech Node"])
                                   THEN strip(row["Tech Node"]) ELSE None,
                     size |-> row["Size"]]]

----------------------------------------------------------------------------
(* The loaders.  An activation is at "resolve" (lines 34-45 / 71-82), at   *)
(* "rows" (the for loop inside try), at "finally", and ends "returned" or  *)
(* "raised".  opened and closed count the file handles and connections     *)
(* acquired and released.                                                  *)

NoReader == [origin |-> "none", header |-> <<>>, rows |-> <<>>]

NewFrame ==
    [pc |-> "resolve", f |-> "unbound", reader |-> NoReader, result |-> <<>>,
     err |-> "none", opened |-> 0, closed |-> 0]

\* with urlopen(url) as response: return response.read().decode('utf-8')
fetch_tsv_from_url(ds) ==
    CASE ds.answer = "ok" -> [err |-> "none", opened |-> 1, closed |-> 1]
      [] ds.answer = "URLError" -> [err |-> "URLError", opened |-> 0, closed |-> 0]
      [] OTHER -> [err |-> ds.answer, opened |-> 1, closed |-> 1]

Reader(origin, ds) == [origin |-> origin, header |-> ds.table.header, rows |-> ds.table.rows]

Resolve(fr, ds) ==
    IF ds.url
    THEN LET got == fetch_tsv_from_url(ds)
             g == [fr EXCEPT !.opened = @ + got.opened, !.closed = @ + got.closed]
         IN  IF got.err = "none"
             THEN [g EXCEPT !.reader = Reader("remote", ds), !.pc = "rows"]
             ELSE [g EXCEPT !.err = got.err, !.pc = "raised"]
    ELSE CASE ds.answer = "ok" ->
                [fr EXCEPT !.f = "file", !.opened = @ + 1,
                           !.reader = Reader("file", ds), !.pc = "rows"]
           [] ds.answer = "FileNotFoundError" ->
                [fr EXCEPT !.reader = Reader("inline", ds), !.f = "None", !.pc = "rows"]
           [] OTHER -> [fr EXCEPT !.err = ds.answer, !.pc = "raised"]

RowBody(loader, row) == IF loader = "read_tech_tree" THEN TechRow(row) ELSE PartRow(row)

Store(loader, result, entry) ==
    IF loader = "read_tech_tree" THEN DictSet(result, entry) ELSE Append(result, entry)

ParseRow(loader, fr) ==
    LET rows == SkipBlank(fr.reader.rows)
    IN  IF rows = <<>>
        THEN [fr EXCEPT !.reader.rows = <<>>, !.pc = "finally"]
        ELSE LET r == RowBody(loader, DictRow(fr.reader.header, Head(rows)))
             IN  IF r.err # "none"
                 THEN [fr EXCEPT !.reader.rows = Tail(rows), !.err = r.err, !.pc = "finally"]
                 ELSE [fr EXCEPT !.reader.rows = Tail(rows),
                                 !.result = Store(loader, @, r.entry)]

\* The file is closed after the loop, not in a finally: an exception skips it.
FinallyOnReturnOnly(fr) ==
    LET g == IF fr.f # "unbound" /\ fr.f # "None" /\ fr.err = "none"
             THEN [fr EXCEPT !.closed = @ + 1] ELSE fr
    IN  [g EXCEPT !.pc = IF fr.err = "none" THEN "returned" ELSE "raised"]

\* if 'f' in locals() and f is not None: f.close(); then return, or re-raise
Finally(fr) ==
    LET g == IF fr.f # "unbound" /\ fr.f # "None" THEN [fr EXCEPT !.closed = @ + 1] ELSE fr
    IN  [g EXCEPT !.pc = IF fr.err = "none" THEN "returned" ELSE "raised"]

LoaderStep(loader, fr, ds) ==
    CASE fr.pc = "resolve" -> Resolve(fr, ds)
      [] fr.pc = "rows" -> ParseRow(loader, fr)
      [] fr.pc = "finally" -> Finally(fr)
      [] OTHER -> fr

Ended(fr) == fr.pc \in {"returned", "raised"}

RECURSIVE RunLoader(_, _, _)
RunLoader(loader, fr, ds) ==
    IF Ended(fr) THEN fr ELSE RunLoader(loader, LoaderStep(loader, fr, ds), ds)

----------------------------------------------------------------------------
(* Inputs of the loaders.                                                  *)

TechColumns == <<"Node", "Tier", "Description", "Prerequisites">>

PartColumns == <<"Category", "Name", "Tech Node", "Size">>

Without(h, c) == SelectSeq(h, LAMBDA x : x # c)

TechHeaders ==
    {TechColumns, <<"Node", "Tier", "Prerequisites", "Description">>}
        \cup {Without(TechColumns, c) : c \in {"Node", "Tier", "Description", "Prerequisites"}}

PartHeaders ==
    {PartColumns} \cup {Without(PartColumns, c) : c \in {"Category", "Name", "Tech Node", "Size"}}

Cells(col) ==
    CASE col = "Node" -> {<<"A">>, <<"B">>}
      [] col = "Tier" -> {<<"1">>, <<"2">>, <<"x">>}
      [] col = "Description" -> {<<"d">>}
      [] col = "Prerequisites" -> {<<"A", ",", " ", "Z">>}
      [] col = "Category" -> {<<"E">>}
      [] col = "Name" -> {<<"P">>}
      [] col = "Tech Node" -> {<<" ", "A", " ">>, <<>>}
      [] col = "Size" -> {<<"S">>, <<>>}

AllCells == UNION {Cells(c) : c \in {"Node", "Tier", "Description", "Prerequisites",
                                     "Category", "Name", "Tech Node", "Size"}}

FullRows(h) == {r \in [1..Len(h) -> AllCells] : \A i \in 1..Len(h) : r[i] \in Cells(h[i])}

\* Rows with fewer cells than the header, the blank line among them.
ShortRows(h) ==
    LET canon == [i \in 1..Len(h) |-> CHOOSE c \in Cells(h[i]) : TRUE]
    IN  {SubSeq(canon, 1, k) : k \in 0..(Len(h) - 1)}

SeqsUpTo(S, n) == UNION {[1..k -> S] : k \in 0..n}

Tables(headers) ==
    UNION {{[header |-> h, rows |-> rs] : rs \in SeqsUpTo(FullRows(h) \cup ShortRows(h), MaxRows)}
             : h \in headers}

UrlAnswers == {"ok", "URLError", "UnicodeDecodeError"}

\* What open() may answer: the file, or an exception (OSError: a name longer
\* than the file system takes, as a table passed for inline text can be).
PathAnswers == {"ok", "FileNotFoundError", "PermissionError", "IsADirectoryError", "OSError"}

Sources(headers) ==
    {[url |-> TRUE, answer |-> a, table |-> t] : a \in UrlAnswers, t \in Tables(headers)}
        \cup {[url |-> FALSE, answer |-> a, table |-> t] : a \in PathAnswers, t \in Tables(headers)}

----------------------------------------------------------------------------
(* A call of one loader.                                                   *)

NoGraph == [nodes |-> <<>>, edges |-> <<>>, cluster |-> <<>>]

NoFiles == [image |-> "absent", source |-> "absent"]

NoCall ==
    /\ pc = "none"
    /\ tech_nodes = <<>>
    /\ parts = <<>>
    /\ unassigned_parts = <<>>
    /\ taken = 0
    /\ dot = NoGraph
    /\ files = NoFiles
    /\ err = "none"

Init ==
    /\ fn \in {"read_tech_tree", "read_parts_catalog"}
    /\ data_source \in Sources(IF fn = "read_tech_tree" THEN TechHeaders ELSE PartHeaders)
    /\ frame = NewFrame
    /\ NoCall

LoadResolve ==
    /\ frame.pc = "resolve"
    /\ frame' = Resolve(frame, data_source)
    /\ UNCHANGED <<fn, data_source, callVars>>

LoadRow ==
    /\ frame.pc = "rows"
    /\ frame' = ParseRow(fn, frame)
    /\ UNCHANGED <<fn, data_source, callVars>>

LoadFinally ==
    /\ frame.pc = "finally"
    /\ frame' = Finally(frame)
    /\ UNCHANGED <<fn, data_source, callVars>>

Next == LoadResolve \/ LoadRow \/ LoadFinally

Spec == Init /\ [][Next]_vars

----------------------------------------------------------------------------
(* Claims about the loaders, checked under Spec.                           *)

Required == IF fn = "read_tech_tree" THEN TechColumns ELSE PartColumns

HeaderNames(h) == {h[i] : i \in 1..Len(h)}

HeaderOmits(h) == \E i \in 1..Len(Required) : Required[i] \notin HeaderNames(h)

\* The row has no cell for a required column: the header omits the column, or
\* the row ends before it.
RowLacks(h, row) ==
    \E i \in 1..Len(Required) :
        Required[i] \notin HeaderNames(h) \/ ColIndex(h, Required[i]) > Len(row)

DataRows == SelectSeq(data_source.table.rows, LAMBDA r : r # <<>>)

\* Data rows whose body has run: all but those left in the reader.
RowsDone == Len(DataRows) - Len(SelectSeq(frame.reader.rows, LAMBDA r : r # <<>>))

Resolved == frame.reader.origin # "none"

\* C6: a descriptor with the http(s) prefix is fetched and never opened as a
\* path; any other descriptor that names an existing resource is parsed from it;
\* every other descriptor is parsed as inline text, whatever made the path
\* attempt fail, and the fallback raises nothing.
C6_FallbackChain ==
    frame.pc # "resolve" =>
        /\ data_source.url => frame.f = "unbound" /\ frame.reader.origin \in {"remote", "none"}
        /\ (~data_source.url /\ data_source.answer = "ok") => frame.reader.origin = "file"
        /\ (~data_source.url /\ data_source.answer # "ok") => frame.reader.origin = "inline"

\* C7: read_tech_tree never returns from a table in which two rows carry the
\* same Node name.
C7_DuplicateNodeFailsFast ==
    (fn = "read_tech_tree" /\ frame.pc = "returned" /\ "Node" \in HeaderNames(data_source.table.header)) =>
        \A i, j \in 1..Len(DataRows) :
            i # j => DictRow(data_source.table.header, DataRows[i])["Node"]
                        # DictRow(data_source.table.header, DataRows[j])["Node"]

TierUnparsed(h, row) ==
    /\ fn = "read_tech_tree"
    /\ {"Node", "Tier"} \subseteq HeaderNames(h)
    /\ \/ DictRow(h, row)["Tier"] = None
       \/ ~IsIntLiteral(DictRow(h, row)["Tier"])

C10_HandlesReleased ==
    /\ [](Ended(frame) => frame.opened = frame.closed)
    /\ [][(frame.pc = "finally" /\ frame.f # "file") => frame'.err = frame.err]_vars

\* A loader that opened a file ended by an exception raised in a row.
C10_Witness ==
    /\ frame.pc = "raised"
    /\ frame.f = "file"
    /\ frame.opened = 1
    /\ frame.err \in {"KeyError", "ValueError", "TypeError", "AttributeError"}

----------------------------------------------------------------------------
(* assign_parts_to_nodes                                                   *)

AppendPart(d, name, part) == [d EXCEPT ![KeyIndex(d, name)].parts = Append(@, part)]

\* Only a part without a tech node is kept as unassigned: one that names an
\* unknown node is dropped.
AssignPartDropsUnknown(st, part) ==
    IF Truthy(part.tech_node) /\ part.tech_node \in Keys(st.tech_nodes)
    THEN [st EXCEPT !.tech_nodes = AppendPart(@, part.tech_node, part)]
    ELSE IF ~Truthy(part.tech_node)
    THEN [st EXCEPT !.unassigned_parts = Append(@, part)]
    ELSE st

\* One iteration of the for loop; st holds tech_nodes and unassigned_parts.
AssignPart(st, part) ==
    IF Truthy(part.tech_node) /\ part.tech_node \in Keys(st.tech_nodes)
    THEN [st EXCEPT !.tech_nodes = AppendPart(@, part.tech_node, part)]
    ELSE [st EXCEPT !.unassigned_parts = Append(@, part)]

RECURSIVE AssignFrom(_, _)
AssignFrom(st, ps) == IF ps = <<>> THEN st ELSE AssignFrom(AssignPart(st, Head(ps)), Tail(ps))

assign_parts_to_nodes(nodes, ps) ==
    AssignFrom([tech_nodes |-> nodes, unassigned_parts |-> <<>>], ps)

----------------------------------------------------------------------------
(* A call of assign_parts_to_nodes on the parts read_parts_catalog makes   *)
(* of a table, as main does.                                               *)

NewNode(name) ==
    [name |-> name, tier |-> int(<<"1">>), description |-> <<"d">>,
     prerequisites |-> <<>>, parts |-> <<>>]

\* Node names are stored as read: with their spaces, and empty if the cell is.
AssignNames == <<<<"A">>, <<"B">>, <<" ", "A">>, <<>>>>

AssignNodeMaps ==
    {LET kept == SelectSeq(AssignNames, LAMBDA n : n \in S)
     IN  [i \in 1..Len(kept) |-> NewNode(kept[i])]
       : S \in SUBSET {AssignNames[i] : i \in 1..Len(AssignNames)}}

AssignTechCells == {<<>>, <<" ">>, <<"A">>, <<" ", "A", " ">>, <<"B">>, <<"Z">>}

AssignRows ==
    {<<<<"E">>, n, t, <<"S">>>> : n \in {<<"P">>, <<"Q">>}, t \in AssignTechCells}
        \cup {<<<<"E">>, <<"P">>>>}

AssignSources ==
    {[url |-> FALSE, answer |-> "FileNotFoundError",
      table |-> [header |-> PartColumns, rows |-> rs]] : rs \in SeqsUpTo(AssignRows, MaxParts)}

InitAssign ==
    /\ fn = "assign_parts_to_nodes"
    /\ data_source \in AssignSources
    /\ frame = NewFrame
    /\ pc = "load"
    /\ tech_nodes \in AssignNodeMaps
    /\ parts = <<>>
    /\ unassigned_parts = <<>>
    /\ taken = 0
    /\ dot = NoGraph
    /\ files = NoFiles
    /\ err = "none"

AssignLoad ==
    /\ pc = "load"
    /\ frame' = RunLoader("read_parts_catalog", frame, data_source)
    /\ parts' = frame'.result
    /\ pc' = "loop"
    /\ UNCHANGED <<fn, data_source, tech_nodes, unassigned_parts, taken, dot, files, err>>

AssignLoop ==
    /\ pc = "loop"
    /\ taken < Len(parts)
    /\ LET st == AssignPart([tech_nodes |-> tech_nodes, unassigned_parts |-> unassigned_parts],
                            parts[taken + 1])
       IN  /\ tech_nodes' = st.tech_nodes
           /\ unassigned_parts' = st.unassigned_parts
    /\ taken' = taken + 1
    /\ UNCHANGED <<fn, data_source, frame, pc, parts, dot, files, err>>

AssignReturn ==
    /\ pc = "loop"
    /\ taken = Len(parts)
    /\ pc' = "returned"
    /\ UNCHANGED <<fn, data_source, frame, tech_nodes, parts, unassigned_parts, taken, dot, files, err>>

NextAssign == AssignLoad \/ AssignLoop \/ AssignReturn

SpecAssign == InitAssign /\ [][NextAssign]_vars

----------------------------------------------------------------------------
(* Claims about assign_parts_to_nodes, checked under SpecAssign.           *)

Count(x, s) == Cardinality({i \in 1..Len(s) : s[i] = x})

RECURSIVE AllNodeParts(_)
AllNodeParts(d) == IF d = <<>> THEN <<>> ELSE Head(d).parts \o AllNodeParts(Tail(d))

ListsHolding(x) ==
    Cardinality({i \in 1..Len(tech_nodes) : Count(x, tech_nodes[i].parts) > 0})
        + (IF Count(x, unassigned_parts) > 0 THEN 1 ELSE 0)

\* C1: when assign_parts_to_nodes returns, the nodes' parts lists and the
\* unassigned list together hold each input part as often as the input does,
\* and no part is in two of these lists.
C1_PartsPartitioned ==
    pc = "returned" =>
        /\ taken = Len(parts)
        /\ \A i \in 1..Len(parts) :
              /\ Count(parts[i], AllNodeParts(tech_nodes) \o unassigned_parts) = Count(parts[i], parts)
              /\ ListsHolding(parts[i]) = 1
        /\ Len(AllNodeParts(tech_nodes) \o unassigned_parts) = Len(parts)

\* Of two parts or more, some went to a node and some stayed unassigned.
C1_Witness ==
    /\ pc = "returned"
    /\ Len(parts) >= 2
    /\ unassigned_parts # <<>>
    /\ AllNodeParts(tech_nodes) # <<>>

TechNodeCell(i) == DictRow(data_source.table.header, data_source.table.rows[i])["Tech Node"]

Present(cell) == cell # None /\ strip(cell) # <<>>

\* C2: the part of row i is in node N's list exactly when the row's Tech Node
\* cell is present (non-empty once trimmed) and, trimmed, equals the key N, and
\* it is then not unassigned; every other part is unassigned, as often as the
\* input holds it, and in no node's list.
C2_RoutedByTechNode ==
    pc = "returned" =>
        /\ Len(parts) = Len(data_source.table.rows)
        /\ \A i \in 1..Len(parts) :
              LET cell == TechNodeCell(i)
                  valid == Present(cell) /\ strip(cell) \in Keys(tech_nodes)
              IN  /\ \A n \in 1..Len(tech_nodes) :
                        Count(parts[i], tech_nodes[n].parts) > 0
                            <=> (Present(cell) /\ strip(cell) = tech_nodes[n].name)
                  /\ valid => Count(parts[i], unassigned_parts) = 0
                  /\ ~valid => Count(parts[i], unassigned_parts) = Count(parts[i], parts)

\* A part whose cell needed trimming is in node A's list, next to a part whose
\* cell names no node and is unassigned.
C2_Witness ==
    /\ pc = "returned"
    /\ \E i, j \in 1..Len(parts) :
          /\ TechNodeCell(i) = <<" ", "A", " ">>
          /\ \E n \in 1..Len(tech_nodes) :
                tech_nodes[n].name = <<"A">> /\ Count(parts[i], tech_nodes[n].parts) = 1
          /\ TechNodeCell(j) = <<"Z">>
          /\ Count(parts[j], unassigned_parts) = 1

----------------------------------------------------------------------------
(* create_tech_tree_graph.  The Digraph is the nodes and edges handed to   *)
(* the renderer, and the nodes of the cluster_unassigned subgraph.         *)

EscapeChar(c) ==
    CASE c = "&" -> "&amp;"
      [] c = "<" -> "&lt;"
      [] c = ">" -> "&gt;"
      [] c = "\"" -> "&quot;"
      [] c = "'" -> "&#x27;"
      [] OTHER -> c

\* html.escape of a str
escape(s) == [i \in 1..Len(s) |-> EscapeChar(s[i])]

\* Lines 127-131: one part of a node's label ([U+2022] is the bullet character).
PartLine(part) ==
    LET part_name == escape(part.name)
        part_size == IF Truthy(part.size) THEN escape(part.size) ELSE <<>>
        line == <<"<BR/>  [U+2022] ">> \o part_name
    IN  IF Truthy(part_size) THEN line \o <<" (">> \o part_size \o <<")">> ELSE line

RECURSIVE PartLines(_)
PartLines(ps) == IF ps = <<>> THEN <<>> ELSE PartLine(Head(ps)) \o PartLines(Tail(ps))

NodeLabel(node) ==
    LET name == <<"<B>">> \o escape(node.name) \o <<"</B>">>
        label == IF node.parts # <<>>
                 THEN name \o <<"<BR/><FONT POINT-SIZE=\"9\">">> \o PartLines(node.parts)
                          \o <<"</FONT>">>
                 ELSE name
    IN  <<"<">> \o label \o <<">">>

\* Lines 120-136
AddNodes(g, nodes) ==
    [g EXCEPT !.nodes = @ \o [i \in 1..Len(nodes) |->
                                 [name |-> nodes[i].name, label |-> NodeLabel(nodes[i])]]]

\* An edge for every prerequisite, a key or not.
NodeEdgesUnchecked(nodes, node) ==
    [i \in 1..Len(node.prerequisites) |-> <<node.prerequisites[i], node.name>>]

\* Lines 140-142 for one node
NodeEdges(nodes, node) ==
    LET known == SelectSeq(node.prerequisites, LAMBDA p : p \in Keys(nodes))
    IN  [i \in 1..Len(known) |-> <<known[i], node.name>>]

RECURSIVE EdgesFrom(_, _)
EdgesFrom(nodes, rest) ==
    IF rest = <<>> THEN <<>> ELSE NodeEdges(nodes, Head(rest)) \o EdgesFrom(nodes, Tail(rest))

\* Lines 139-142
AddEdges(g, nodes) == [g EXCEPT !.edges = @ \o EdgesFrom(nodes, nodes)]

\* Lines 150-155: by_category, a dict from category to the parts of it
RECURSIVE ByCategory(_, _)
ByCategory(d, ps) ==
    IF ps = <<>> THEN d
    ELSE LET cat == Head(ps).category
             e == IF cat \in Keys(d) THEN d ELSE Append(d, [name |-> cat, parts |-> <<>>])
         IN  ByCategory(AppendPart(e, cat, Head(ps)), Tail(ps))

\* Lines 157-164.  The first part of the first category evaluates the f-string
\* of line 161, which reads size_str: no assignment binds that name, in the
\* function or in the module, and the read raises NameError.
ClusterLabelParts(by_category) ==
    IF by_category = <<>>
    THEN [err |-> "none", label_parts |-> <<>>]
    ELSE [err |-> "NameError", label_parts |-> <<>>]

\* Lines 145-168.  The subgraph joins the Digraph when its with block ends
\* without an exception.
AddCluster(g, unassigned) ==
    IF unassigned = <<>> THEN [err |-> "none", dot |-> g]
    ELSE LET made == ClusterLabelParts(ByCategory(<<>>, unassigned))
             label == <<"<", "<FONT POINT-SIZE=\"10\">">> \o made.label_parts \o <<"</FONT>", ">">>
         IN  IF made.err # "none" THEN [err |-> made.err, dot |-> g]
             ELSE [err |-> "none",
                   dot |-> [g EXCEPT !.cluster = Append(@, [name |-> <<"unassigned">>,
                                                             label |-> label])]]

create_tech_tree_graph(nodes, unassigned) ==
    AddCluster(AddEdges(AddNodes(NoGraph, nodes), nodes), unassigned)

----------------------------------------------------------------------------
(* A call of create_tech_tree_graph on what assign_parts_to_nodes leaves.  *)
(* Part names are strings here.                                            *)

GraphNode(name, prereqs) == [NewNode(name) EXCEPT !.prerequisites = prereqs]

GraphNodeMaps ==
    {a \o b : a \in {<<>>} \cup {<<GraphNode(<<"A">>, p)>> : p \in {<<>>, <<<<"Z">>>>}},
              b \in {<<>>} \cup {<<GraphNode(<<"B">>, p)>> :
                                    p \in {<<>>, <<<<"A">>>>, <<<<"A">>, <<"Z">>>>}}}

GraphParts ==
    {[category |-> c, name |-> <<"P", "&">>, tech_node |-> t, size |-> z] :
        c \in {<<"E">>, <<"F">>}, t \in {<<"A">>, None}, z \in {<<>>, <<"<">>, None}}

InitGraph ==
    /\ fn = "create_tech_tree_graph"
    /\ data_source = [url |-> FALSE, answer |-> "FileNotFoundError",
                      table |-> [header |-> <<>>, rows |-> <<>>]]
    /\ frame = NewFrame
    /\ pc = "nodes"
    /\ parts \in SeqsUpTo(GraphParts, MaxParts)
    /\ \E nodes \in GraphNodeMaps :
          /\ tech_nodes = assign_parts_to_nodes(nodes, parts).tech_nodes
          /\ unassigned_parts = assign_parts_to_nodes(nodes, parts).unassigned_parts
    /\ taken = Len(parts)
    /\ dot = NoGraph
    /\ files = NoFiles
    /\ err = "none"

GraphNodes ==
    /\ pc = "nodes"
    /\ dot' = AddNodes(dot, tech_nodes)
    /\ pc' = "edges"
    /\ UNCHANGED <<fn, data_source, frame, tech_nodes, parts, unassigned_parts, taken, files, err>>

GraphEdges ==
    /\ pc = "edges"
    /\ dot' = AddEdges(dot, tech_nodes)
    /\ pc' = "cluster"
    /\ UNCHANGED <<fn, data_source, frame, tech_nodes, parts, unassigned_parts, taken, files, err>>

GraphCluster ==
    /\ pc = "cluster"
    /\ LET made == AddCluster(dot, unassigned_parts)
       IN  /\ dot' = made.dot
           /\ err' = made.err
           /\ pc' = IF made.err = "none" THEN "returned" ELSE "raised"
    /\ UNCHANGED <<fn, data_source, frame, tech_nodes, parts, unassigned_parts, taken, files>>

NextGraph == GraphNodes \/ GraphEdges \/ GraphCluster

SpecGraph == InitGraph /\ [][NextGraph]_vars

----------------------------------------------------------------------------
(* Claims about create_tech_tree_graph, checked under SpecGraph.           *)

\* C3: every edge handed to the renderer joins two keys of the mapping; once
\* the edge loop is over every prerequisite that is a key has its edge, a
\* prerequisite that is no key has made no edge, and nothing was raised.
C3_EdgesJoinKeys ==
    /\ \A i \in 1..Len(dot.edges) :
          dot.edges[i][1] \in Keys(tech_nodes) /\ dot.edges[i][2] \in Keys(tech_nodes)
    /\ pc = "cluster" =>
          /\ err = "none"
          /\ \A n \in 1..Len(tech_nodes) :
                \A p \in 1..Len(tech_nodes[n].prerequisites) :
                    LET e == <<tech_nodes[n].prerequisites[p], tech_nodes[n].name>>
                    IN  IF e[1] \in Keys(tech_nodes)
                        THEN Count(e, dot.edges) >= 1
                        ELSE Count(e, dot.edges) = 0

\* Node B names A, a key, and Z, no key: the edge loop ended with A -> B alone.
C3_Witness ==
    /\ pc = "cluster"
    /\ err = "none"
    /\ \E n \in 1..Len(tech_nodes) :
          /\ tech_nodes[n].name = <<"B">>
          /\ tech_nodes[n].prerequisites = <<<<"A">>, <<"Z">>>>
    /\ dot.edges = <<<<<<"A">>, <<"B">>>>>>

GraphEnded == pc \in {"returned", "raised"}

Categories(ps) == {ps[i].category : i \in 1..Len(ps)}

\* Places at which sub occurs in s.
Occurrences(sub, s) ==
    Cardinality({i \in 0..(Len(s) - Len(sub)) : SubSeq(s, i + 1, i + Len(sub)) = sub})

BlockHead(category) == <<"<B>">> \o escape(category) \o <<":</B>">>

\* C4: with unassigned parts, create_tech_tree_graph completes and the graph
\* has one cluster node, whose label holds one block per category of the
\* unassigned parts.
C4_ClusterPerCategory ==
    (GraphEnded /\ unassigned_parts # <<>>) =>
        /\ pc = "returned"
        /\ Len(dot.cluster) = 1
        /\ \A c \in Categories(unassigned_parts) :
              Occurrences(BlockHead(c), dot.cluster[1].label) = 1

\* What the claim has a part's entry end with: nothing after the name when
\* the size is empty, the size in parentheses otherwise.
SizeSuffix(part) ==
    IF part.size = None \/ part.size = <<>> THEN <<>>
    ELSE <<" (">> \o escape(part.size) \o <<")">>

\* C5: in a node's label and in the cluster's label alike, a part with an
\* empty size is entered by its name alone and a part with a size by its name
\* and the size in parentheses.
C5_SizeSuffix ==
    GraphEnded =>
        /\ \A n \in 1..Len(tech_nodes) : \A p \in 1..Len(tech_nodes[n].parts) :
              LET part == tech_nodes[n].parts[p]
                  entry == <<"<BR/>  [U+2022] ">> \o escape(part.name) \o SizeSuffix(part)
              IN  \E m \in 1..Len(dot.nodes) :
                      /\ dot.nodes[m].name = tech_nodes[n].name
                      /\ Occurrences(entry \o <<"<BR/>  [U+2022] ">>, dot.nodes[m].label)
                            + Occurrences(entry \o <<"</FONT>">>, dot.nodes[m].label) > 0
        /\ \A p \in 1..Len(unassigned_parts) :
              LET part == unassigned_parts[p]
                  entry == <<"  [U+2022] ">> \o escape(part.name) \o SizeSuffix(part)
              IN  /\ Len(dot.cluster) = 1
                  /\ Occurrences(entry \o <<"<BR/>">>, dot.cluster[1].label)
                        + Occurrences(entry \o <<"</FONT>">>, dot.cluster[1].label) > 0

----------------------------------------------------------------------------
(* main: the two loads from the published sheets, the join, the graph, the *)
(* rendered image and the saved graph source.  err is the exception that   *)
(* aborted the run, raised by the step pc names.                           *)

startswith(s, prefix) == Len(s) >= Len(prefix) /\ SubSeq(s, 1, Len(prefix)) = prefix

\* data_source.startswith('http://') or data_source.startswith('https://')
IsRemote(s) ==
    \/ startswith(s, <<"h", "t", "t", "p", ":", "/", "/">>)
    \/ startswith(s, <<"h", "t", "t", "p", "s", ":", "/", "/">>)

BASE_URL == <<"h", "t", "t", "p", "s", ":", "/", "/", "docs.google.com/spreadsheets/d/e/.../pub?output=tsv">>

PARTS_LIST_URL == BASE_URL \o <<"&gid=22599298">>

TECH_TREE_URL == BASE_URL \o <<"&gid=1681045610">>

\* What the network may answer for a sheet.
Published(url, headers) ==
    {[url |-> IsRemote(url), answer |-> a, table |-> t] : a \in UrlAnswers, t \in Tables(headers)}

InitMain ==
    /\ fn = "main"
    /\ data_source = [url |-> IsRemote(TECH_TREE_URL), answer |-> "ok",
                      table |-> [header |-> <<>>, rows |-> <<>>]]
    /\ frame = NewFrame
    /\ pc = "read_tech_tree"
    /\ tech_nodes = <<>>
    /\ parts = <<>>
    /\ unassigned_parts = <<>>
    /\ taken = 0
    /\ dot = NoGraph
    /\ files = NoFiles
    /\ err = "none"

MainReadTechTree ==
    /\ pc = "read_tech_tree" /\ err = "none"
    /\ \E src \in Published(TECH_TREE_URL, TechHeaders) :
          LET run == RunLoader("read_tech_tree", NewFrame, src)
          IN  IF run.pc = "raised"
              THEN err' = run.err /\ UNCHANGED <<pc, tech_nodes>>
              ELSE tech_nodes' = run.result /\ pc' = "read_parts_catalog" /\ UNCHANGED err
    /\ UNCHANGED <<fn, data_source, frame, parts, unassigned_parts, taken, dot, files>>

MainReadPartsCatalog ==
    /\ pc = "read_parts_catalog" /\ err = "none"
    /\ \E src \in Published(PARTS_LIST_URL, PartHeaders) :
          LET run == RunLoader("read_parts_catalog", NewFrame, src)
          IN  IF run.pc = "raised"
              THEN err' = run.err /\ UNCHANGED <<pc, parts>>
              ELSE parts' = run.result /\ pc' = "assign" /\ UNCHANGED err
    /\ UNCHANGED <<fn, data_source, frame, tech_nodes, unassigned_parts, taken, dot, files>>

MainAssign ==
    /\ pc = "assign" /\ err = "none"
    /\ tech_nodes' = assign_parts_to_nodes(tech_nodes, parts).tech_nodes
    /\ unassigned_parts' = assign_parts_to_nodes(tech_nodes, parts).unassigned_parts
    /\ taken' = Len(parts)
    /\ pc' = "create_graph"
    /\ UNCHANGED <<fn, data_source, frame, parts, dot, files, err>>

MainCreateGraph ==
    /\ pc = "create_graph" /\ err = "none"
    /\ LET made == create_tech_tree_graph(tech_nodes, unassigned_parts)
       IN  IF made.err # "none"
           THEN err' = made.err /\ UNCHANGED <<pc, dot>>
           ELSE dot' = made.dot /\ pc' = "render" /\ UNCHANGED err
    /\ UNCHANGED <<fn, data_source, frame, tech_nodes, parts, unassigned_parts, taken, files>>

\* graph.render(output_file, cleanup=True): the renderer writes tech_tree.png,
\* or fails.  A failed render is taken to leave no image, the case that asks
\* least of the run.
MainRender ==
    /\ pc = "render" /\ err = "none"
    /\ \/ files' = [files EXCEPT !.image = "written"] /\ pc' = "write_source" /\ UNCHANGED err
       \/ err' = "CalledProcessError" /\ UNCHANGED <<pc, files>>
    /\ UNCHANGED <<fn, data_source, frame, tech_nodes, parts, unassigned_parts, taken, dot>>

\* The graph source is saved before the image is rendered.
MainWriteSourceFirst ==
    /\ pc = "render" /\ err = "none" /\ files.source = "absent"
    /\ files' = [files EXCEPT !.source = "written"]
    /\ UNCHANGED <<fn, data_source, frame, pc, tech_nodes, parts, unassigned_parts, taken, dot, err>>

\* with open('tech_tree.dot', 'w') as f: f.write(graph.source)
MainWriteSource ==
    /\ pc = "write_source" /\ err = "none"
    /\ \/ files' = [files EXCEPT !.source = "written"] /\ pc' = "done" /\ UNCHANGED err
       \/ err' = "PermissionError" /\ UNCHANGED <<pc, files>>
       \/ files' = [files EXCEPT !.source = "partial"] /\ err' = "OSError" /\ UNCHANGED pc
    /\ UNCHANGED <<fn, data_source, frame, tech_nodes, parts, unassigned_parts, taken, dot>>

NextMain ==
    \/ MainReadTechTree
    \/ MainReadPartsCatalog
    \/ MainAssign
    \/ MainCreateGraph
    \/ MainRender
    \/ MainWriteSource

SpecMain == InitMain /\ [][NextMain]_vars

----------------------------------------------------------------------------
(* Claims about main, checked under SpecMain.                              *)

\* C8 as stated: whatever aborts the run, neither output file has been written
\* (and so the two files are both written or both absent).
C8_AbortLeavesNothing ==
    err # "none" => files.image = "absent" /\ files.source = "absent"

\* C8 amended: an exception raised before rendering starts (while loading,
\* assigning or building the graph) leaves neither output file written, and
\* the graph source is never written unless the image was written before it.
C8_NoOutputBeforeRender ==
    /\ (err # "none" /\ pc \in {"read_tech_tree", "read_parts_catalog", "assign", "create_graph"}) =>
          files.image = "absent" /\ files.source = "absent"
    /\ pc \in {"read_tech_tree", "read_parts_catalog", "assign", "create_graph", "render"} =>
          files.source = "absent"
    /\ files.source # "absent" => files.image = "written"

\* A Tier that is no integer aborted the run in read_tech_tree, nothing written.
C8_Witness ==
    /\ pc = "read_tech_tree"
    /\ err = "ValueError"
    /\ files = NoFiles

====
